---- MODULE Spec2Model ----
(***************************************************************************)
(* A model of the constraint framework's row-evaluation contract           *)
(* (constraint_framework/mod.rs) and of the component aggregators          *)
(* (core/air/components.rs).                                               *)
(*                                                                         *)
(* Four specifications share the variables:                                *)
(*   SpecAir       the Components / ComponentProvers aggregators           *)
(*   SpecEval      the mask operations of an evaluator (EvalAtRow)         *)
(*   SpecLogup     the LogUp operations of an evaluator with logup_proxy   *)
(*   SpecRelation  relation!::combine                                      *)
(* A Rust panic is the outcome Panic; a returned value v is Ok(v).         *)
(***************************************************************************)
EXTENDS Integers, Sequences, FiniteSets, TLC

VARIABLES
    components,   \* Components.0 / ComponentProvers.0, the ordered list
    op,           \* the operation of the last call, "none" before any
    args,         \* its arguments
    ret,          \* its outcome: Ok(value) or Panic
    col_index,    \* evaluator: per-tree column cursor
    logup,        \* evaluator: the `logup` field (a LogupAtRow)
    calls,        \* evaluator: the LogUp hooks called so far, in order
    panicked      \* evaluator: some call has panicked

vars == <<components, op, args, ret, col_index, logup, calls, panicked>>

----------------------------------------------------------------------------
(* Bounds of the model *)

\* Longest component list given to an aggregator.
MaxComponents == 2
\* Longest flat list of committed columns in one commitment tree.
MaxFlat == 4
\* Most commitment trees a caller hands to component_traces.
MaxTrees == 3
\* Columns an evaluator reads from one tree, at most.
MaxColumns == 5
\* Longest list of row offsets asked of a column.
MaxOffsets == 2
\* LogUp hooks called on one evaluator, at most.
MaxCalls == 4
\* Entries batched by one add_to_relation call, at most.
MaxBatch == 2
\* Longest value tuple given to combine.
MaxValues == 3
\* Field elements are the residues 0..Modulus-1.
Modulus == 5
\* $size of the relation: the number of alpha powers it holds.
RelationSize == 2

(* Program constants *)

SECURE_EXTENSION_DEGREE == 4
PREPROCESSED_TRACE_IDX == 0
ORIGINAL_TRACE_IDX == 1
INTERACTION_TRACE_IDX == 2

----------------------------------------------------------------------------
(* Outcomes and sequence helpers *)

Ok(v) == [ok |-> TRUE, val |-> v]
Panic == [ok |-> FALSE, val |-> <<>>]

Min(a, b) == IF a <= b THEN a ELSE b

\* Vec::resize(n, vec![]) on a vector shorter than n.
Resize(v, n) == [i \in 1..n |-> IF i <= Len(v) THEN v[i] ELSE <<>>]

\* vec![x; n]
Repeat(x, n) == [i \in 1..n |-> x]

\* itertools::zip_eq, collected: panics when one side ends before the other.
ZipTruncating(a, b) == Ok([i \in 1..Min(Len(a), Len(b)) |-> <<a[i], b[i]>>])
ZipEq(a, b) ==
    IF Len(a) = Len(b)
      THEN Ok([i \in 1..Len(a) |-> <<a[i], b[i]>>])
      ELSE Panic

RECURSIVE Flatten(_)
Flatten(ss) == IF ss = <<>> THEN <<>> ELSE Head(ss) \o Flatten(Tail(ss))

RECURSIVE SumSeq(_)
SumSeq(s) == IF s = <<>> THEN 0 ELSE Head(s) + SumSeq(Tail(s))

RECURSIVE MaxSeq(_)
MaxSeq(s) ==
    IF Len(s) = 1 THEN Head(s)
    ELSE LET m == MaxSeq(Tail(s)) IN IF Head(s) >= m THEN Head(s) ELSE m

\* Sequences over S of length 0..n.
SeqUpTo(S, n) == UNION {[1..k -> S] : k \in 0..n}

----------------------------------------------------------------------------
(* Components (implementors of the Component / ComponentProver traits).    *)
(* A component declares, per tree, its columns; column c of a component    *)
(* has its own log size and its own mask offsets.                          *)

\* A component with base log size ls and n_cols[t] columns in tree t.
MkComponent(ls, n_cols) ==
    [ log_size |-> ls,
      n_constraints |-> Len(n_cols) + 1,
      cols |-> [t \in 1..Len(n_cols) |->
                  [c \in 1..n_cols[t] |->
                     [log_size |-> ls + c - 1,
                      offsets |-> IF c = 1 THEN <<0>> ELSE <<0, c - 1>>]]] ]

ComponentUniverse ==
    { MkComponent(3, <<1, 2>>),
      MkComponent(6, <<0, 1>>),
      MkComponent(9, <<1, 1, 2>>),
      MkComponent(12, <<2>>) }

\* Component::max_constraint_log_degree_bound
max_constraint_log_degree_bound(component) == component.log_size + 1

\* Component::n_constraints
n_constraints(component) == component.n_constraints

\* Component::trace_log_degree_bounds: tree -> column -> log size
trace_log_degree_bounds(component) ==
    [t \in 1..Len(component.cols) |->
       [c \in 1..Len(component.cols[t]) |-> component.cols[t][c].log_size]]

\* Component::mask_points: tree -> column -> the points the column is opened at
component_mask_points(component, point) ==
    [t \in 1..Len(component.cols) |->
       [c \in 1..Len(component.cols[t]) |->
          [k \in 1..Len(component.cols[t][c].offsets) |->
             point + component.cols[t][c].offsets[k]]]]

Points == {100, 200}

----------------------------------------------------------------------------
(* Components (verifier side) *)

\* Components::composition_log_degree_bound
SumOfBounds(cs) ==
    IF cs = <<>> THEN Panic
    ELSE Ok(SumSeq([i \in 1..Len(cs) |-> max_constraint_log_degree_bound(cs[i])]))
composition_log_degree_bound(cs) ==
    IF cs = <<>> THEN Panic     \* Iterator::max() is None, unwrap() panics
    ELSE Ok(MaxSeq([i \in 1..Len(cs) |-> max_constraint_log_degree_bound(cs[i])]))

\* One iteration of the loop of mask_points / column_log_sizes: grow the
\* per-tree list if the component has more trees, then zip_eq and extend.
ExtendInterleaved(air, per_tree) ==
    LET grown == IF Len(air) < Len(per_tree) THEN Resize(air, Len(per_tree)) ELSE air
        z == ZipEq(grown, per_tree)
    IN  IF ~z.ok THEN Panic
        ELSE Ok([t \in 1..Len(grown) |-> per_tree[t] \o grown[t]])
ExtendTrees(air, per_tree) ==
    LET grown == IF Len(air) < Len(per_tree) THEN Resize(air, Len(per_tree)) ELSE air
        z == ZipEq(grown, per_tree)
    IN  IF ~z.ok THEN Panic
        ELSE Ok([t \in 1..Len(z.val) |-> z.val[t][1] \o z.val[t][2]])

RECURSIVE AggregateTrees(_, _)
\* The loop over the components, from the accumulated per-tree list `air`.
AggregateTrees(air, outputs) ==
    IF outputs = <<>> THEN Ok(air)
    ELSE LET r == ExtendTrees(air, Head(outputs))
         IN  IF ~r.ok THEN Panic ELSE AggregateTrees(r.val, Tail(outputs))

\* The tree mask_points appends for the composition polynomial.
CompositionTreeShort(point) == Repeat(<<point>>, SECURE_EXTENSION_DEGREE - 1)
CompositionTree(point) == Repeat(<<point>>, SECURE_EXTENSION_DEGREE)

\* Components::mask_points
mask_points(cs, point) ==
    LET r == AggregateTrees(<<>>,
                 [i \in 1..Len(cs) |-> component_mask_points(cs[i], point)])
    IN  IF ~r.ok THEN Panic ELSE Ok(Append(r.val, CompositionTree(point)))

\* Components::column_log_sizes
column_log_sizes(cs) ==
    AggregateTrees(<<>>, [i \in 1..Len(cs) |-> trace_log_degree_bounds(cs[i])])

\* Components::eval_composition_polynomial_at_point.  The point accumulator
\* is kept as the list of (component, mask) contributions it received.
eval_composition_polynomial_at_point(cs, point, mask_values, random_coeff) ==
    LET z == ZipEq(cs, mask_values)
    IN  IF ~z.ok THEN Panic
        ELSE Ok([random_coeff |-> random_coeff, point |-> point,
                 contributions |-> z.val])

----------------------------------------------------------------------------
(* ComponentProvers (prover side) *)

\* The committed columns of one tree: CommitmentTreeProver.polynomials and
\* .evaluations, one entry of each per committed column, in commit order.
CommitmentTree(t, n) ==
    [ polynomials |-> [j \in 1..n |-> <<"poly", t, j>>],
      evaluations |-> [j \in 1..n |-> <<"eval", t, j>>] ]

\* iter.take(n).collect_vec() on the rest of a flat list: what is taken, and
\* what the iterator still holds.
TakeWithoutAdvancing(rest, n) ==
    LET k == Min(n, Len(rest))
    IN  [taken |-> SubSeq(rest, 1, k), rest |-> rest]
TakeOneTooFew(rest, n) ==
    LET k == Min(IF n > 0 THEN n - 1 ELSE 0, Len(rest))
    IN  [taken |-> SubSeq(rest, 1, k), rest |-> SubSeq(rest, k + 1, Len(rest))]
Take(rest, n) ==
    LET k == Min(n, Len(rest))
    IN  [taken |-> SubSeq(rest, 1, k), rest |-> SubSeq(rest, k + 1, Len(rest))]

\* col_sizes_per_tree.iter().zip_eq(iters.iter_mut()).map(take).collect_vec():
\* one component's share of every tree, and the iterators afterwards.
TakePerTree(col_sizes_per_tree, iters) ==
    LET z == ZipEq(col_sizes_per_tree, iters)
    IN  IF ~z.ok THEN Panic
        ELSE Ok([taken |-> [t \in 1..Len(z.val) |-> Take(z.val[t][2], z.val[t][1]).taken],
                 iters |-> [t \in 1..Len(z.val) |-> Take(z.val[t][2], z.val[t][1]).rest]])

RECURSIVE PartitionTraces(_, _, _)
\* The map over the components, with the iterators poly_iters / eval_iters
\* as they stand when the component is reached.
PartitionTraces(cs, poly_iters, eval_iters) ==
    IF cs = <<>> THEN Ok(<<>>)
    ELSE LET bounds == trace_log_degree_bounds(Head(cs))
             col_sizes_per_tree == [t \in 1..Len(bounds) |-> Len(bounds[t])]
             polys == TakePerTree(col_sizes_per_tree, poly_iters)
             evals == TakePerTree(col_sizes_per_tree, eval_iters)
         IN  IF ~polys.ok \/ ~evals.ok THEN Panic
             ELSE LET more == PartitionTraces(Tail(cs), polys.val.iters, evals.val.iters)
                  IN  IF ~more.ok THEN Panic
                      ELSE Ok(<<[polys |-> polys.val.taken,
                                 evals |-> evals.val.taken]>> \o more.val)

\* ComponentProvers::component_traces
component_traces(cs, trees) ==
    PartitionTraces(cs,
        [t \in 1..Len(trees) |-> trees[t].polynomials],
        [t \in 1..Len(trees) |-> trees[t].evaluations])

\* ComponentProvers::compute_composition_polynomial.  The domain accumulator
\* is kept as its constructor arguments and the contributions it received.
compute_composition_polynomial(cs, random_coeff, traces) ==
    LET total_constraints == SumSeq([i \in 1..Len(cs) |-> n_constraints(cs[i])])
        bound == composition_log_degree_bound(cs)
        z == ZipEq(cs, traces)
    IN  IF ~bound.ok \/ ~z.ok THEN Panic
        ELSE Ok([random_coeff |-> random_coeff,
                 max_log_size |-> bound.val,
                 total_constraints |-> total_constraints,
                 contributions |-> z.val])

\* ComponentProvers::lookup_values: values.extend(component.lookup_values(trace))
\* for every pair, kept as the list of pairs that contributed.
lookup_values(cs, traces) ==
    LET z == ZipEq(cs, traces)
    IN  IF ~z.ok THEN Panic ELSE Ok(z.val)

----------------------------------------------------------------------------
(* Field arithmetic: F and EF are both the residues modulo Modulus, F       *)
(* embedded in EF by the identity.                                          *)

FieldElements == 0..(Modulus - 1)
FAdd(a, b) == (a + b) % Modulus
FSub(a, b) == ((a - b) + Modulus) % Modulus
FMul(a, b) == (a * b) % Modulus

RECURSIVE FPow(_, _)
FPow(a, n) == IF n = 0 THEN 1 % Modulus ELSE FMul(a, FPow(a, n - 1))

\* Fraction::new
Fraction(n, d) == [numerator |-> n, denominator |-> d]

\* Fraction + Fraction: a/b + c/d = (a*d + c*b)/(b*d)
FractionAdd(x, y) ==
    Fraction(FAdd(FMul(x.numerator, y.denominator), FMul(y.numerator, x.denominator)),
             FMul(x.denominator, y.denominator))

RECURSIVE FractionFold(_, _)
FractionFold(acc, fracs) ==
    IF fracs = <<>> THEN acc
    ELSE FractionFold(FractionAdd(acc, Head(fracs)), Tail(fracs))

\* fracs.into_iter().sum() of a non-empty list
FractionSum(fracs) == FractionFold(Head(fracs), Tail(fracs))

----------------------------------------------------------------------------
(* Relations (the relation! macro) *)

\* LookupElements<N>: the alpha powers alpha^0..alpha^(N-1) and z.
LookupElements(alpha, z) ==
    [alpha_powers |-> [i \in 1..RelationSize |-> FPow(alpha, i - 1)], z |-> z]

Relations == {LookupElements(alpha, z) : alpha \in {2, 3}, z \in {1, 4}}

RECURSIVE FoldCombine(_, _, _)
\* values.iter().zip(alpha_powers).fold(acc, |acc, (value, power)| acc + power * value)
\* zip ends with the shorter of the two.
FoldCombine(acc, values, powers) ==
    IF values = <<>> \/ powers = <<>> THEN acc
    ELSE FoldCombine(FAdd(acc, FMul(Head(powers), Head(values))),
                     Tail(values), Tail(powers))

\* relation!::combine
combine(relation, values) ==
    FSub(FoldCombine(0, values, relation.alpha_powers), relation.z)

----------------------------------------------------------------------------
(* The evaluator: self = [col_index, logup] *)

Trees == PREPROCESSED_TRACE_IDX..INTERACTION_TRACE_IDX
Offsets == {-1, 0, 1}
OffsetLists == SeqUpTo(Offsets, MaxOffsets)
LogSizes == {3, 4}

\* PreprocessedColumn::IsFirst(log_size)
IsFirst(log_size) == <<"IsFirst", log_size>>

\* The value of column `col` of tree `interaction` at row offset `offset`.
MaskItem(interaction, col, offset) == <<interaction, col, offset>>

\* EvalAtRow::next_interaction_mask: the next column of the tree at the given
\* offsets; the tree's cursor moves on by one column.
next_interaction_mask(self, interaction, offsets) ==
    [ self |-> [self EXCEPT !.col_index[interaction] = @ + 1],
      out |-> [k \in 1..Len(offsets) |->
                 MaskItem(interaction, self.col_index[interaction], offsets[k])] ]

\* EvalAtRow::next_trace_mask
next_trace_mask(self) ==
    LET r == next_interaction_mask(self, ORIGINAL_TRACE_IDX, <<0>>)
    IN  [self |-> r.self, out |-> r.out[1]]

\* EvalAtRow::get_preprocessed_column: `_column` is not used.
GetPreprocessedFromOriginal(self, column) ==
    LET r == next_interaction_mask(self, ORIGINAL_TRACE_IDX, <<0>>)
    IN  [self |-> r.self, out |-> r.out[1]]
get_preprocessed_column(self, column) ==
    LET r == next_interaction_mask(self, PREPROCESSED_TRACE_IDX, <<0>>)
    IN  [self |-> r.self, out |-> r.out[1]]

\* EvalAtRow::combine_ef: 4 base values as one extension value.
combine_ef(values) == [ef |-> values]

RECURSIVE ReadColumns(_, _, _, _)
\* array::from_fn(|_| self.next_interaction_mask(interaction, offsets)) for
\* n array slots, filled in index order.
ReadColumns(self, interaction, offsets, n) ==
    IF n = 0 THEN [self |-> self, out |-> <<>>]
    ELSE LET r == next_interaction_mask(self, interaction, offsets)
             more == ReadColumns(r.self, interaction, offsets, n - 1)
         IN  [self |-> more.self, out |-> <<r.out>> \o more.out]

\* EvalAtRow::next_extension_interaction_mask
NextExtensionReversed(self, interaction, offsets) ==
    LET r == ReadColumns(self, interaction, offsets, SECURE_EXTENSION_DEGREE)
    IN  [ self |-> r.self,
          out |-> [j \in 1..Len(offsets) |->
                     combine_ef([i \in 1..SECURE_EXTENSION_DEGREE |->
                                   r.out[SECURE_EXTENSION_DEGREE + 1 - i][j]])] ]
next_extension_interaction_mask(self, interaction, offsets) ==
    LET res_col_major == ReadColumns(self, interaction, offsets, SECURE_EXTENSION_DEGREE)
    IN  [ self |-> res_col_major.self,
          out |-> [j \in 1..Len(offsets) |->
                     combine_ef([i \in 1..SECURE_EXTENSION_DEGREE |->
                                   res_col_major.out[i][j]])] ]

----------------------------------------------------------------------------
(* LogupAtRow, the accumulator behind the `logup` field: its lifecycle.     *)

\* LogupAtRow::default(): the placeholder std::mem::take leaves behind, and
\* the field's value before any init_logup.  It is not open for writing.
LogupDefault ==
    [is_finalized |-> TRUE, interaction |-> INTERACTION_TRACE_IDX,
     total_sum |-> 0, claimed_sum |-> <<>>, is_first |-> <<>>]

\* LogupAtRow::new: a fresh, open accumulator.
LogupAtRow_new(interaction, total_sum, claimed_sum, is_first) ==
    [is_finalized |-> FALSE, interaction |-> interaction,
     total_sum |-> total_sum, claimed_sum |-> claimed_sum, is_first |-> is_first]

\* LogupAtRow::write_frac(&mut self, eval, fraction): fails unless open.
LogupAtRow_write_frac(lg, eval, fraction) ==
    IF lg.is_finalized THEN Panic ELSE Ok([logup |-> lg, eval |-> eval])

\* LogupAtRow::finalize(&mut self, eval): fails unless open, and closes.
LogupAtRow_finalize(lg, eval) ==
    IF lg.is_finalized THEN Panic
    ELSE Ok([logup |-> [lg EXCEPT !.is_finalized = TRUE], eval |-> eval])

\* Replacing an accumulator that is still open fails: one
\* init -> write* -> finalize sequence per accumulator.
LogupAtRow_replaceable(lg) == lg.is_finalized

----------------------------------------------------------------------------
(* logup_proxy!: the LogUp hooks of an evaluator with a `logup` field *)

\* logup_proxy!::init_logup
init_logup(self, total_sum, claimed_sum, log_size) ==
    LET is_first == get_preprocessed_column(self, IsFirst(log_size))
        new == LogupAtRow_new(INTERACTION_TRACE_IDX, total_sum, claimed_sum,
                              is_first.out)
    IN  IF ~LogupAtRow_replaceable(is_first.self.logup) THEN Panic
        ELSE Ok([is_first.self EXCEPT !.logup = new])

\* logup_proxy!::write_frac: the accumulator is taken out of the evaluator,
\* used, and put back.
WriteFracNoRestore(self, fraction) ==
    LET taken == self.logup
        detached == [self EXCEPT !.logup = LogupDefault]
        r == LogupAtRow_write_frac(taken, detached, fraction)
    IN  IF ~r.ok THEN Panic ELSE Ok(r.val.eval)
write_frac(self, fraction) ==
    LET taken == self.logup
        detached == [self EXCEPT !.logup = LogupDefault]
        r == LogupAtRow_write_frac(taken, detached, fraction)
    IN  IF ~r.ok THEN Panic
        ELSE IF ~LogupAtRow_replaceable(r.val.eval.logup) THEN Panic
        ELSE Ok([r.val.eval EXCEPT !.logup = r.val.logup])

\* logup_proxy!::finalize_logup
finalize_logup(self) ==
    LET taken == self.logup
        detached == [self EXCEPT !.logup = LogupDefault]
        r == LogupAtRow_finalize(taken, detached)
    IN  IF ~r.ok THEN Panic
        ELSE IF ~LogupAtRow_replaceable(r.val.eval.logup) THEN Panic
        ELSE Ok([r.val.eval EXCEPT !.logup = r.val.logup])

\* A relation entry: RelationEntry::new(relation, multiplicity, values)
RelationEntry(relation, multiplicity, values) ==
    [relation |-> relation, multiplicity |-> multiplicity, values |-> values]

\* EvalAtRow::add_to_relation: `forwarded` lists the fractions handed to
\* write_frac, `written` is the outcome of the write_frac call.
AddToRelationLastOnly(self, entries) ==
    LET fracs == [i \in 1..Len(entries) |->
                    Fraction(entries[i].multiplicity,
                             combine(entries[i].relation, entries[i].values))]
    IN  [forwarded |-> <<fracs[Len(fracs)]>>,
         written |-> write_frac(self, fracs[Len(fracs)])]
add_to_relation(self, entries) ==
    LET fracs == [i \in 1..Len(entries) |->
                    Fraction(entries[i].multiplicity,
                             combine(entries[i].relation, entries[i].values))]
    IN  [forwarded |-> <<FractionSum(fracs)>>,
         written |-> write_frac(self, FractionSum(fracs))]

----------------------------------------------------------------------------
(* SpecAir: an aggregator is built over a component list, one of its        *)
(* operations is called, and the call returns or panics.                    *)

ComponentLists == SeqUpTo(ComponentUniverse, MaxComponents)

\* Per-component data supplied by the caller: entry i is the token i.
Supplied(n) == [i \in 1..n |-> i]

\* Flat committed-column lists: any number of trees, any length per tree.
TreeLists ==
    { [t \in 1..Len(ns) |-> CommitmentTree(t, ns[t])] : ns \in SeqUpTo(0..MaxFlat, MaxTrees) }

EvalIdle ==
    /\ col_index = [t \in 0..INTERACTION_TRACE_IDX |-> 0]
    /\ logup = LogupDefault
    /\ calls = <<>>
    /\ panicked = FALSE

InitAir ==
    /\ components \in ComponentLists
    /\ op = "none"
    /\ args = <<>>
    /\ ret = Ok(<<>>)
    /\ EvalIdle

Called(name, a, r) ==
    /\ op = "none"
    /\ op' = name
    /\ args' = a
    /\ ret' = r
    /\ UNCHANGED <<components, col_index, logup, calls, panicked>>

CompositionLogDegreeBound ==
    Called("composition_log_degree_bound", <<>>,
           composition_log_degree_bound(components))

MaskPoints ==
    \E point \in Points :
        Called("mask_points", <<point>>, mask_points(components, point))

ColumnLogSizes ==
    Called("column_log_sizes", <<>>, column_log_sizes(components))

EvalCompositionPolynomialAtPoint ==
    \E point \in Points, n \in 0..(MaxComponents + 1) :
        Called("eval_composition_polynomial_at_point", <<point, Supplied(n)>>,
               eval_composition_polynomial_at_point(components, point, Supplied(n), 7))

ComputeCompositionPolynomial ==
    \E n \in 0..(MaxComponents + 1) :
        Called("compute_composition_polynomial", <<Supplied(n)>>,
               compute_composition_polynomial(components, 7, Supplied(n)))

ComponentTraces ==
    \E trees \in TreeLists :
        Called("component_traces", <<trees>>, component_traces(components, trees))

LookupValues ==
    \E n \in 0..(MaxComponents + 1) :
        Called("lookup_values", <<Supplied(n)>>, lookup_values(components, Supplied(n)))

\* The caller takes the outcome; the aggregator can be used again.
Return ==
    /\ op # "none"
    /\ op' = "none"
    /\ args' = <<>>
    /\ ret' = Ok(<<>>)
    /\ UNCHANGED <<components, col_index, logup, calls, panicked>>

NextAir ==
    \/ CompositionLogDegreeBound
    \/ MaskPoints
    \/ ColumnLogSizes
    \/ EvalCompositionPolynomialAtPoint
    \/ ComputeCompositionPolynomial
    \/ ComponentTraces
    \/ LookupValues
    \/ Return

SpecAir == InitAir /\ [][NextAir]_vars

----------------------------------------------------------------------------
(* SpecEval: the mask operations, called in any order on one evaluator.     *)

Self == [col_index |-> col_index, logup |-> logup]

InitEval ==
    /\ components = <<>>
    /\ op = "none"
    /\ args = <<>>
    /\ ret = Ok(<<>>)
    /\ EvalIdle

\* A mask operation returns r.out and leaves the evaluator as r.self.
MaskCall(name, a, r) ==
    /\ op' = name
    /\ args' = a
    /\ ret' = Ok(r.out)
    /\ col_index' = r.self.col_index
    /\ logup' = r.self.logup
    /\ UNCHANGED <<components, calls, panicked>>

NextInteractionMask ==
    \E interaction \in Trees, offsets \in OffsetLists :
        /\ col_index[interaction] < MaxColumns
        /\ MaskCall("next_interaction_mask",
                    [interaction |-> interaction, offsets |-> offsets,
                     before |-> col_index],
                    next_interaction_mask(Self, interaction, offsets))

NextTraceMask ==
    /\ col_index[ORIGINAL_TRACE_IDX] < MaxColumns
    /\ MaskCall("next_trace_mask", [before |-> col_index], next_trace_mask(Self))

GetPreprocessedColumn ==
    \E log_size \in LogSizes :
        /\ col_index[PREPROCESSED_TRACE_IDX] < MaxColumns
        /\ MaskCall("get_preprocessed_column",
                    [column |-> IsFirst(log_size), before |-> col_index],
                    get_preprocessed_column(Self, IsFirst(log_size)))

NextExtensionInteractionMask ==
    \E interaction \in Trees, offsets \in OffsetLists :
        /\ col_index[interaction] + SECURE_EXTENSION_DEGREE <= MaxColumns
        /\ MaskCall("next_extension_interaction_mask",
                    [interaction |-> interaction, offsets |-> offsets,
                     before |-> col_index],
                    next_extension_interaction_mask(Self, interaction, offsets))

NextEval ==
    \/ NextInteractionMask
    \/ NextTraceMask
    \/ GetPreprocessedColumn
    \/ NextExtensionInteractionMask

SpecEval == InitEval /\ [][NextEval]_vars

----------------------------------------------------------------------------
(* SpecLogup: the LogUp hooks, called in any order on one evaluator wired   *)
(* with logup_proxy!, until one of them panics.                             *)

\* The call `hooks` (the LogUp hooks it reached, in order) ends as r:
\* Ok(evaluator afterwards) or Panic.
LogupCall(name, a, hooks, r) ==
    /\ ~panicked
    /\ Len(calls) + Len(hooks) <= MaxCalls
    /\ op' = name
    /\ args' = a
    /\ calls' = calls \o hooks
    /\ ret' = IF r.ok THEN Ok(<<>>) ELSE Panic
    /\ panicked' = ~r.ok
    /\ col_index' = IF r.ok THEN r.val.col_index ELSE col_index
    /\ logup' = IF r.ok THEN r.val.logup ELSE logup
    /\ UNCHANGED components

InitLogup ==
    \E log_size \in LogSizes :
        LogupCall("init_logup", [log_size |-> log_size], <<"init_logup">>,
                  init_logup(Self, 1, <<>>, log_size))

Fractions == {Fraction(n, d) : n \in {1, Modulus - 1}, d \in {1, 2}}

WriteFrac ==
    \E fraction \in Fractions :
        LogupCall("write_frac", [fraction |-> fraction], <<"write_frac">>,
                  write_frac(Self, fraction))

FinalizeLogup ==
    LogupCall("finalize_logup", <<>>, <<"finalize_logup">>, finalize_logup(Self))

EntryValues == {<<1>>, <<2, 3>>}

\* The batches of 1..MaxBatch entries into one relation.
Batches ==
    UNION { [1..k -> {RelationEntry(relation, m, v) :
                        m \in {1, Modulus - 1}, v \in EntryValues}] :
            relation \in Relations, k \in 1..MaxBatch }

AddToRelation ==
    \E entries \in Batches :
        LET r == add_to_relation(Self, entries) IN
        LogupCall("add_to_relation",
                  [entries |-> entries, forwarded |-> r.forwarded,
                   calls_before |-> calls],
                  [i \in 1..Len(r.forwarded) |-> "write_frac"],
                  r.written)

NextLogup ==
    \/ InitLogup
    \/ WriteFrac
    \/ FinalizeLogup
    \/ AddToRelation

SpecLogup == InitEval /\ [][NextLogup]_vars

----------------------------------------------------------------------------
(* SpecRelation: combine is called on a relation and a value tuple.         *)

Combine ==
    \E alpha \in {2, 3}, z \in {1, 4}, values \in SeqUpTo(FieldElements, MaxValues) :
        Called("combine", [alpha |-> alpha, z |-> z, values |-> values],
               Ok(combine(LookupElements(alpha, z), values)))

NextRelation ==
    \/ Combine
    \/ Return

SpecRelation == InitEval /\ [][NextRelation]_vars


----------------------------------------------------------------------------
(* Claims about the aggregators, checked under SpecAir *)

\* Number of columns the components declare for tree t, all together.
DeclaredColumns(cs, t) ==
    SumSeq([i \in 1..Len(cs) |->
              IF t <= Len(cs[i].cols) THEN Len(cs[i].cols[t]) ELSE 0])

\* Largest number of trees a component of the list declares.
ComponentTrees(cs) ==
    IF cs = <<>> THEN 0 ELSE MaxSeq([i \in 1..Len(cs) |-> Len(cs[i].cols)])

SameTreeCount(cs) ==
    \A i, j \in 1..Len(cs) : Len(cs[i].cols) = Len(cs[j].cols)

\* The flat lists given to component_traces hold, in every tree, as many
\* columns as the components declare for it.
LengthsMatchDeclared ==
    \A t \in 1..Len(args[1]) :
        Len(args[1][t].polynomials) = DeclaredColumns(components, t)

\* C1: when component_traces returns for flat lists whose length in each tree
\* is the sum of the declared column counts, concatenating the bundles in
\* component order gives back each tree's flat list, for polys and for evals.
C1_PartitionRoundTrip ==
    (op = "component_traces" /\ ret.ok /\ LengthsMatchDeclared) =>
        /\ Len(ret.val) = Len(components)
        /\ \A t \in 1..Len(args[1]) :
            /\ Flatten([i \in 1..Len(ret.val) |-> ret.val[i].polys[t]])
                   = args[1][t].polynomials
            /\ Flatten([i \in 1..Len(ret.val) |-> ret.val[i].evals[t]])
                   = args[1][t].evaluations

C1_Witness ==
    /\ op = "component_traces" /\ ret.ok /\ LengthsMatchDeclared
    /\ Len(components) = 2
    /\ components[1] # components[2]
    /\ \E t \in 1..Len(args[1]) :
        /\ Len(args[1][t].polynomials) >= 3
        /\ Len(ret.val[1].polys[t]) >= 1
        /\ Len(ret.val[2].polys[t]) >= 1

\* C2: mask_points appends exactly one tree, the last one, of
\* SECURE_EXTENSION_DEGREE columns that each hold the one point `point`; the
\* trees before it hold only columns of the components, so there are
\* (number of component trees + 1) trees.
C2_CompositionTreeLast ==
    (op = "mask_points" /\ ret.ok) =>
        LET n == Len(ret.val) IN
        /\ n = ComponentTrees(components) + 1
        /\ Len(ret.val[n]) = SECURE_EXTENSION_DEGREE
        /\ \A c \in 1..Len(ret.val[n]) : ret.val[n][c] = <<args[1]>>
        /\ \A t \in 1..(n - 1) :
            /\ Len(ret.val[t]) = DeclaredColumns(components, t)
            /\ \A c \in 1..Len(ret.val[t]) :
                \E i \in 1..Len(components) :
                    /\ t <= Len(components[i].cols)
                    /\ \E k \in 1..Len(components[i].cols[t]) :
                        ret.val[t][c]
                            = component_mask_points(components[i], args[1])[t][k]

C2_Witness ==
    /\ op = "mask_points" /\ ret.ok
    /\ Len(components) = 2
    /\ Len(ret.val) = 4
    /\ Len(ret.val[1]) >= 1

\* C3: for components that declare the same number of trees, tree t of
\* mask_points / column_log_sizes is the concatenation, in component order,
\* of tree t of every component's own output.
C3_OrderPreserved ==
    /\ (op = "mask_points" /\ ret.ok /\ SameTreeCount(components)) =>
          \A t \in 1..ComponentTrees(components) :
              ret.val[t] = Flatten([i \in 1..Len(components) |->
                              component_mask_points(components[i], args[1])[t]])
    /\ (op = "column_log_sizes" /\ ret.ok /\ SameTreeCount(components)) =>
          /\ Len(ret.val) = ComponentTrees(components)
          /\ \A t \in 1..ComponentTrees(components) :
              ret.val[t] = Flatten([i \in 1..Len(components) |->
                              trace_log_degree_bounds(components[i])[t]])

C3_Witness ==
    /\ op = "column_log_sizes" /\ ret.ok
    /\ Len(components) = 2
    /\ components[1] # components[2]
    /\ SameTreeCount(components)
    /\ \E t \in 1..Len(ret.val) :
        /\ Len(ret.val[t]) = 3
        /\ Len(components[1].cols[t]) = 2

PairedOps ==
    {"eval_composition_polynomial_at_point", "compute_composition_polynomial",
     "lookup_values"}

\* The per-component entries the caller supplied to a pairing operation.
SuppliedEntries == args[Len(args)]

\* C4: a pairing operation given a number of per-component entries other
\* than the number of components panics; it returns nothing.
C4_CardinalityMismatchFails ==
    (op \in PairedOps /\ Len(SuppliedEntries) # Len(components)) => ~ret.ok

C4_Witness ==
    /\ op = "lookup_values"
    /\ Len(components) = 2
    /\ Len(SuppliedEntries) = 1
    /\ ~ret.ok

\* C8: composition_log_degree_bound of a non-empty list is the maximum of the
\* components' bounds, and compute_composition_polynomial builds its domain
\* accumulator with that maximum and the sum of the components' n_constraints.
IsMaxBound(cs, b) ==
    /\ \A i \in 1..Len(cs) : max_constraint_log_degree_bound(cs[i]) <= b
    /\ \E i \in 1..Len(cs) : max_constraint_log_degree_bound(cs[i]) = b

C8_MaxNotSum ==
    /\ (op = "composition_log_degree_bound" /\ components # <<>>) =>
          ret.ok /\ IsMaxBound(components, ret.val)
    /\ (op = "compute_composition_polynomial" /\ ret.ok) =>
          /\ IsMaxBound(components, ret.val.max_log_size)
          /\ ret.val.total_constraints
                = SumSeq([i \in 1..Len(components) |-> components[i].n_constraints])

C8_Witness ==
    /\ op = "compute_composition_polynomial" /\ ret.ok
    /\ Len(components) = 2
    /\ max_constraint_log_degree_bound(components[1])
         > max_constraint_log_degree_bound(components[2])
    /\ ret.val.max_log_size = max_constraint_log_degree_bound(components[1])

----------------------------------------------------------------------------
(* Claims about relations, checked under SpecRelation and SpecLogup *)

RECURSIVE SumOverAll(_, _, _)
\* alpha^(i-1) * values[i], summed over every index i of values from i on.
SumOverAll(alpha, values, i) ==
    IF i > Len(values) THEN 0
    ELSE FAdd(FMul(FPow(alpha, i - 1), values[i]), SumOverAll(alpha, values, i + 1))

\* C5: combine(v) is the sum over every index i of v of alpha_i * v_i, minus
\* z; no element of v is left out.
C5_CombineSumsEveryValue ==
    op = "combine" =>
        ret.val = FSub(SumOverAll(args.alpha, args.values, 1), args.z)

\* The product of the denominators of all fractions but the one at `skip`
\* (of all of them when skip = 0).
RECURSIVE ProductExcept(_, _, _)
ProductExcept(fracs, skip, i) ==
    IF i > Len(fracs) THEN 1 % Modulus
    ELSE FMul(IF i = skip THEN 1 % Modulus ELSE fracs[i].denominator,
              ProductExcept(fracs, skip, i + 1))

RECURSIVE CrossSum(_, _)
\* Sum over i >= from of numerator_i times the other fractions' denominators.
CrossSum(fracs, from) ==
    IF from > Len(fracs) THEN 0
    ELSE FAdd(FMul(fracs[from].numerator, ProductExcept(fracs, from, 1)),
              CrossSum(fracs, from + 1))

\* The fractions multiplicity / relation.combine(values) of a batch.
EntryFractions(entries) ==
    [i \in 1..Len(entries) |->
       Fraction(entries[i].multiplicity,
                combine(entries[i].relation, entries[i].values))]

\* C6: one add_to_relation call on k >= 1 entries reaches write_frac exactly
\* once, with the fraction whose denominator is the product of the entries'
\* denominators and whose numerator is the sum of each multiplicity times
\* the other entries' denominators: the k fractions added over a common
\* denominator.
C6_BatchTransparency ==
    op = "add_to_relation" =>
        /\ calls = args.calls_before \o <<"write_frac">>
        /\ Len(args.forwarded) = 1
        /\ args.forwarded[1]
             = Fraction(CrossSum(EntryFractions(args.entries), 1),
                        ProductExcept(EntryFractions(args.entries), 0, 1))

C6_Witness ==
    /\ op = "add_to_relation"
    /\ ~panicked
    /\ Len(args.entries) = 2
    /\ args.entries[1].values # args.entries[2].values
    /\ args.forwarded[1].numerator # 0

----------------------------------------------------------------------------
(* Claims about the evaluator, checked under SpecLogup and SpecEval *)

RECURSIVE LegalLifecycle(_, _)
\* The call sequence is made of init_logup, write_frac*, finalize_logup
\* rounds, the last of which may be unfinished; `open` tells whether a round
\* is in progress where the sequence starts.
LegalLifecycle(cs, open) ==
    IF cs = <<>> THEN TRUE
    ELSE CASE Head(cs) = "init_logup" -> ~open /\ LegalLifecycle(Tail(cs), TRUE)
           [] Head(cs) = "write_frac" -> open /\ LegalLifecycle(Tail(cs), TRUE)
           [] Head(cs) = "finalize_logup" -> open /\ LegalLifecycle(Tail(cs), FALSE)

\* C7: a sequence of LogUp calls goes without a failure exactly when it is
\* made of init_logup, write_frac*, finalize_logup rounds; so write_frac
\* before any init_logup, finalize_logup without init_logup, and a second
\* finalize_logup without a new init_logup all fail.
C7_LogupLifecycle ==
    /\ panicked <=> ~LegalLifecycle(calls, FALSE)
    /\ (calls # <<>> /\ calls[1] \in {"write_frac", "finalize_logup"}) => panicked
    /\ (\E i \in 1..(Len(calls) - 1) :
            calls[i] = "finalize_logup" /\ calls[i + 1] = "finalize_logup") => panicked

C7_Witness ==
    /\ calls = <<"init_logup", "write_frac", "finalize_logup", "finalize_logup">>
    /\ op = "finalize_logup"
    /\ panicked

\* C9 as stated: get_preprocessed_column returns the column its descriptor
\* names, however many preprocessed columns were read before; so a call that
\* follows a call with the same descriptor returns the same value.
C9_DescriptorNamesColumn ==
    [][(/\ op = "get_preprocessed_column"
        /\ op' = "get_preprocessed_column"
        /\ args'.column = args.column) => ret' = ret]_vars

\* C9 as amended: get_preprocessed_column(descriptor) returns the offset-0
\* value of the next unread column of the preprocessed tree, whatever the
\* descriptor, and moves that tree's cursor on by one column.
C9_NextPreprocessedColumn ==
    op = "get_preprocessed_column" =>
        /\ ret.val = MaskItem(PREPROCESSED_TRACE_IDX,
                              args.before[PREPROCESSED_TRACE_IDX], 0)
        /\ col_index = [args.before EXCEPT ![PREPROCESSED_TRACE_IDX] = @ + 1]

C9_Witness ==
    /\ op = "get_preprocessed_column"
    /\ args.before[PREPROCESSED_TRACE_IDX] = 2
    /\ args.before[ORIGINAL_TRACE_IDX] = 1
    /\ args.column = IsFirst(3)

\* C10: next_extension_interaction_mask(tree, offsets) reads the next
\* SECURE_EXTENSION_DEGREE columns of the tree, each at the same offsets,
\* leaves the other trees' cursors alone, and returns for offset j the
\* extension value combined from the j-th value of the 4 columns, in the
\* order the columns were read.
C10_ExtensionMask ==
    op = "next_extension_interaction_mask" =>
        /\ col_index = [args.before EXCEPT
                           ![args.interaction] = @ + SECURE_EXTENSION_DEGREE]
        /\ Len(ret.val) = Len(args.offsets)
        /\ \A j \in 1..Len(args.offsets) :
            ret.val[j] = combine_ef(
                [i \in 1..SECURE_EXTENSION_DEGREE |->
                   MaskItem(args.interaction,
                            args.before[args.interaction] + i - 1,
                            args.offsets[j])])

C10_Witness ==
    /\ op = "next_extension_interaction_mask"
    /\ args.interaction = INTERACTION_TRACE_IDX
    /\ args.before[INTERACTION_TRACE_IDX] = 1
    /\ args.before[ORIGINAL_TRACE_IDX] = 2
    /\ args.offsets = <<-1, 0>>

----------------------------------------------------------------------------
(* Claims about differing tree counts and about the partition's slices,     *)
(* checked under SpecAir                                                    *)

\* Tree t of a component's per-tree output, nothing for a tree the component
\* does not declare.
TreeOrNothing(per_tree, t) == IF t <= Len(per_tree) THEN per_tree[t] ELSE <<>>

\* C11: mask_points and column_log_sizes succeed for components whose tree
\* counts differ, in any order; the result has as many component trees as
\* the largest count a component declares, and a component contributes
\* nothing to the trees it does not declare.
C11_TreeCountsAlign ==
    /\ op = "mask_points" =>
          /\ ret.ok
          /\ Len(ret.val) = ComponentTrees(components) + 1
          /\ \A t \in 1..ComponentTrees(components) :
              ret.val[t] = Flatten([i \in 1..Len(components) |->
                  TreeOrNothing(component_mask_points(components[i], args[1]), t)])
    /\ op = "column_log_sizes" =>
          /\ ret.ok
          /\ Len(ret.val) = ComponentTrees(components)
          /\ \A t \in 1..ComponentTrees(components) :
              ret.val[t] = Flatten([i \in 1..Len(components) |->
                  TreeOrNothing(trace_log_degree_bounds(components[i]), t)])

\* Number of columns the components before the i-th declare for tree t.
DeclaredBefore(cs, i, t) == DeclaredColumns(SubSeq(cs, 1, i - 1), t)

\* The entries start+1 .. start+n of a flat list, as far as the list goes.
SliceWithin(flat, start, n) ==
    SubSeq(flat, Min(start, Len(flat)) + 1, Min(start + n, Len(flat)))

\* C12 as stated: for any flat lists, the bundle of component i holds for
\* tree t exactly as many polys and evals as the component declares columns,
\* namely the entries of the flat list that follow the first
\* DeclaredBefore(i, t) ones.
C12_ExactlyDeclaredColumns ==
    (op = "component_traces" /\ ret.ok) =>
        \A i \in 1..Len(components) : \A t \in 1..Len(args[1]) :
            LET n == Len(components[i].cols[t])
                start == DeclaredBefore(components, i, t)
            IN  /\ Len(ret.val[i].polys[t]) = n
                /\ Len(ret.val[i].evals[t]) = n
                /\ start + n <= Len(args[1][t].polynomials)
                /\ \A k \in 1..n :
                    /\ ret.val[i].polys[t][k] = args[1][t].polynomials[start + k]
                    /\ ret.val[i].evals[t][k] = args[1][t].evaluations[start + k]

\* C12 as amended: when component_traces returns, the bundle of component i
\* holds for tree t the contiguous slice of the flat list that starts after
\* the columns declared by the components before it and runs for the
\* component's declared count or to the end of the flat list, whichever
\* comes first; polys and evals are cut at the same positions, and the
\* slices of two components do not overlap.
C12_SlicesUpToDeclared ==
    (op = "component_traces" /\ ret.ok) =>
        /\ Len(ret.val) = Len(components)
        /\ \A i \in 1..Len(components) :
            /\ Len(ret.val[i].polys) = Len(args[1])
            /\ Len(ret.val[i].evals) = Len(args[1])
            /\ \A t \in 1..Len(args[1]) :
                LET n == Len(components[i].cols[t])
                    start == DeclaredBefore(components, i, t)
                IN  /\ ret.val[i].polys[t]
                          = SliceWithin(args[1][t].polynomials, start, n)
                    /\ ret.val[i].evals[t]
                          = SliceWithin(args[1][t].evaluations, start, n)
                    /\ Len(args[1][t].polynomials) >= start + n
                          => Len(ret.val[i].polys[t]) = n

C12_Witness ==
    /\ op = "component_traces" /\ ret.ok
    /\ Len(components) = 2
    /\ \E t \in 1..Len(args[1]) :
        /\ Len(components[1].cols[t]) = 2
        /\ Len(ret.val[1].polys[t]) = 2
        /\ Len(components[2].cols[t]) = 2
        /\ Len(ret.val[2].polys[t]) = 1
        /\ ret.val[2].polys[t][1] = args[1][t].polynomials[3]

====
